---- MODULE Spec2Model ----
(***************************************************************************)
(* Telemetry decoding and windowed aggregation of the sensor dashboard     *)
(* (src/src/mqttService.js): the two binary record decoders, the message   *)
(* handler with its legacy and base64 paths, the running clock-offset      *)
(* average and the per-channel sliding windows held in React state.        *)
(***************************************************************************)
EXTENDS Integers, Sequences, FiniteSets, TLC

VARIABLES
    now,            \* Date.now(): the browser's clock, in ms
    decoderMode,    \* React state decoderMode: "original" or "base64"
    listenerMode,   \* decoderMode captured by the registered handleMessage
    effectPending,  \* a render changed decoderMode and the effect has not re-run yet
    mounted,        \* App is mounted: no render of it has thrown
    piezo,          \* React state piezo: channel key -> sequence of {time, value}
    temp1,          \* React state temp1
    hum1,           \* React state hum1
    queue,          \* state updates enqueued by setPiezo/setTemp1/setHum1/setDecoderMode
    offsetRef,      \* offsetRef.current
    offsetSamples,  \* offsetSamples.current
    received,       \* history: number of messages handleMessage has been called with
    observed,       \* history: every offset sample pushed so far, in arrival order
    writtenAt,      \* history: channel key -> Date.now() of the latest updater that wrote it
    last,           \* history: what the latest step did (handler outcome or applied update)
    heap,           \* the window arrays as objects: [arrays: id -> contents, refs: key -> id]
    shown,          \* history: every array handed to a SensorPlot, with the contents it had
    listeners,      \* the transport client's registry: event -> handlers App has registered
    buf,            \* decoder harness: the base64 string under decode
    decoded,        \* decoder harness: the decoder's return value
    invalidLog      \* decoder harness: the invalidCount the piezo decoder logged

vars == <<now, decoderMode, listenerMode, effectPending, piezo, temp1, hum1, queue,
          offsetRef, offsetSamples, received, observed, writtenAt, mounted, last, heap,
          shown, listeners, buf, decoded, invalidLog>>

appVars == <<now, decoderMode, listenerMode, effectPending, piezo, temp1, hum1, queue,
             offsetRef, offsetSamples, received, observed, writtenAt, mounted, last, heap,
             shown, listeners>>

harnessVars == <<buf, decoded, invalidLog>>

-----------------------------------------------------------------------------
(* Numbers.  JavaScript numbers are modelled exactly: integers as Int, and  *)
(* the results of divisions as normalised fractions [n, d] with d > 0.      *)

RECURSIVE GCD(_, _)
GCD(a, b) == IF b = 0 THEN a ELSE GCD(b, a % b)

Abs(x) == IF x < 0 THEN -x ELSE x

\* n / d for integers n and d > 0, in lowest terms
Rat(n, d) ==
    LET g == GCD(Abs(n), d)
    IN  IF n = 0 THEN [n |-> 0, d |-> 1] ELSE [n |-> n \div g, d |-> d \div g]

RatInt(i) == [n |-> i, d |-> 1]

\* a - b
RatSub(a, b) == Rat(a.n * b.d - b.n * a.d, a.d * b.d)

\* a <= b
RatLeq(a, b) == a.n * b.d <= b.n * a.d

RECURSIVE SeqSum(_)
SeqSum(s) == IF s = <<>> THEN 0 ELSE Head(s) + SeqSum(Tail(s))

Min(a, b) == IF a < b THEN a ELSE b

Null == [null |-> TRUE]

-----------------------------------------------------------------------------
(* Base64.  A base64 string is a sequence of character codes: 0..63 are the *)
(* alphabet's sextets, PadChar is '=' and BadChar any other character.      *)

PadChar == 64
BadChar == 65

RECURSIVE SextetsToBytes(_)
SextetsToBytes(s) ==
    IF Len(s) >= 4 THEN
        LET v == ((s[1] * 64 + s[2]) * 64 + s[3]) * 64 + s[4]
        IN  <<v \div 65536, (v \div 256) % 256, v % 256>>
              \o SextetsToBytes(SubSeq(s, 5, Len(s)))
    ELSE IF Len(s) = 3 THEN
        LET v == (s[1] * 64 + s[2]) * 64 + s[3]
        IN  <<v \div 1024, (v \div 4) % 256>>
    ELSE IF Len(s) = 2 THEN
        <<(s[1] * 64 + s[2]) \div 16>>
    ELSE <<>>

\* atob(base64Data) followed by the charCodeAt loop: ok is FALSE when atob
\* throws (InvalidCharacterError), otherwise bytes holds the Uint8Array
Atob(s) ==
    LET n == Len(s)
        cut == IF n > 0 /\ n % 4 = 0 /\ s[n] = PadChar
               THEN (IF s[n - 1] = PadChar THEN 2 ELSE 1)
               ELSE 0
        body == SubSeq(s, 1, n - cut)
    IN  IF Len(body) % 4 = 1 THEN [ok |-> FALSE, bytes |-> <<>>]
        ELSE IF \E i \in 1..Len(body) : body[i] > 63 THEN [ok |-> FALSE, bytes |-> <<>>]
        ELSE [ok |-> TRUE, bytes |-> SextetsToBytes(body)]

-----------------------------------------------------------------------------
(* DataView reads, little-endian.  A read of `width` bytes at `off` throws  *)
(* a RangeError unless InBounds; the get operators give the value read.     *)

InBounds(view, off, width) == off + width <= Len(view)

getUint8(view, off) == view[off + 1]

\* getUint16 reading the two bytes as a signed value
getUint16Signed(view, off) ==
    LET u == view[off + 1] + 256 * view[off + 2]
    IN  IF u >= 32768 THEN u - 65536 ELSE u

getUint16(view, off) == view[off + 1] + 256 * view[off + 2]

\* getInt16 reading the two bytes as an unsigned value
getInt16Unsigned(view, off) == view[off + 1] + 256 * view[off + 2]

getInt16(view, off) ==
    LET u == view[off + 1] + 256 * view[off + 2]
    IN  IF u >= 32768 THEN u - 65536 ELSE u

getUint32(view, off) ==
    view[off + 1] + 256 * view[off + 2] + 65536 * view[off + 3]
      + 16777216 * view[off + 4]

-----------------------------------------------------------------------------
(* decodePiezoData                                                          *)

\* PiezoLoop with the loops exchanged: s outside, ch inside
RECURSIVE PiezoLoopSampleMajor(_, _, _)
PiezoLoopSampleMajor(view, h, st) ==
    IF st.s >= h.numSamples THEN st
    ELSE IF st.ch >= h.numChannels
         THEN PiezoLoopSampleMajor(view, h, [st EXCEPT !.s = @ + 1, !.ch = 0])
    ELSE IF ~InBounds(view, st.offset, 2) THEN [st EXCEPT !.threw = TRUE]
    ELSE
        LET rawValue == getInt16(view, st.offset)
            timestamp == h.baseTimestamp * 1000 + (st.s * h.sampleIntervalMs)
            pushed == IF rawValue = -32768
                      THEN [st EXCEPT !.invalidCount = @ + 1]
                      ELSE [st EXCEPT !.channels[st.ch + 1] =
                                Append(@, [timestamp |-> timestamp,
                                           value |-> Rat(rawValue, 100)])]
        IN  PiezoLoopSampleMajor(view, h, [pushed EXCEPT !.ch = @ + 1, !.offset = @ + 2])

\* the nested for loops over ch and s; st = [ch, s, offset, channels,
\* invalidCount, threw] is the loop state, threw set when a read is out of bounds
RECURSIVE PiezoLoop(_, _, _)
PiezoLoop(view, h, st) ==
    IF st.ch >= h.numChannels THEN st
    ELSE IF st.s >= h.numSamples
         THEN PiezoLoop(view, h, [st EXCEPT !.ch = @ + 1, !.s = 0])
    ELSE IF ~InBounds(view, st.offset, 2) THEN [st EXCEPT !.threw = TRUE]
    ELSE
        LET rawValue == getInt16(view, st.offset)
            timestamp == h.baseTimestamp * 1000 + (st.s * h.sampleIntervalMs)
            pushed == IF rawValue = -32768
                      THEN [st EXCEPT !.invalidCount = @ + 1]
                      ELSE [st EXCEPT !.channels[st.ch + 1] =
                                Append(@, [timestamp |-> timestamp,
                                           value |-> Rat(rawValue, 100)])]
        IN  PiezoLoop(view, h, [pushed EXCEPT !.s = @ + 1, !.offset = @ + 2])

\* the decoder's run on a base64 string: [threw, channels, invalidCount,
\* baseTimestamp, sampleIntervalMs]
PiezoRun(base64Data) ==
    LET a == Atob(base64Data)
        view == a.bytes
        failed == [threw |-> TRUE, channels |-> <<>>, invalidCount |-> 0,
                   baseTimestamp |-> 0, sampleIntervalMs |-> 0]
    IN  IF ~a.ok THEN failed
        ELSE IF ~InBounds(view, 0, 4) \/ ~InBounds(view, 4, 2)
                \/ ~InBounds(view, 6, 1) \/ ~InBounds(view, 7, 1) THEN failed
        ELSE
            LET h == [baseTimestamp |-> getUint32(view, 0),
                      sampleIntervalMs |-> getUint16(view, 4),
                      numSamples |-> getUint8(view, 6),
                      numChannels |-> getUint8(view, 7)]
                st == PiezoLoop(view, h,
                        [ch |-> 0, s |-> 0, offset |-> 8,
                         channels |-> [i \in 1..h.numChannels |-> <<>>],
                         invalidCount |-> 0, threw |-> FALSE])
            IN  [threw |-> st.threw, channels |-> st.channels,
                 invalidCount |-> st.invalidCount,
                 baseTimestamp |-> h.baseTimestamp,
                 sampleIntervalMs |-> h.sampleIntervalMs]

\* decodePiezoData returning the base timestamp converted to milliseconds
decodePiezoDataMs(base64Data) ==
    LET r == PiezoRun(base64Data)
    IN  IF r.threw THEN Null
        ELSE [channels |-> r.channels, baseTimestamp |-> r.baseTimestamp * 1000,
              sampleIntervalMs |-> r.sampleIntervalMs]

\* the return value: null from the catch block, else the object of line 142
decodePiezoData(base64Data) ==
    LET r == PiezoRun(base64Data)
    IN  IF r.threw THEN Null
        ELSE [channels |-> r.channels, baseTimestamp |-> r.baseTimestamp,
              sampleIntervalMs |-> r.sampleIntervalMs]

\* the invalidCount the decoder has counted when it logs it (lines 138-140);
\* nothing is logged when the decoder threw
PiezoInvalidCount(base64Data) ==
    LET r == PiezoRun(base64Data)
    IN  IF r.threw THEN 0 ELSE r.invalidCount

-----------------------------------------------------------------------------
(* decodeTempHumData                                                        *)

decodeTempHumData(base64Data) ==
    LET a == Atob(base64Data)
        view == a.bytes
    IN  IF ~a.ok THEN Null
        ELSE IF ~InBounds(view, 0, 4) \/ ~InBounds(view, 4, 2) \/ ~InBounds(view, 6, 2)
             THEN Null
        ELSE
            LET timestamp == getUint32(view, 0)
                tempRaw == getInt16(view, 4)
                humRaw == getUint16(view, 6)
            IN  [timestamp |-> timestamp,
                 temperature |-> Rat(tempRaw, 100),
                 humidity |-> Rat(humRaw, 100)]

-----------------------------------------------------------------------------
(* The producer's side of the wire format (docs/DATA_SCHEME.md): how the    *)
(* device packs a record into bytes and wraps them in base64.  Used to     *)
(* build the payloads the dashboard receives.                               *)

LE16(u) == <<u % 256, u \div 256>>

LE32(u) == <<u % 256, (u \div 256) % 256, (u \div 65536) % 256, u \div 16777216>>

\* an int16 as the uint16 with the same bit pattern
ToU16(i) == IF i < 0 THEN i + 65536 ELSE i

RECURSIVE PackValues(_)
PackValues(values) ==
    IF values = <<>> THEN <<>>
    ELSE LE16(ToU16(Head(values))) \o PackValues(Tail(values))

\* struct PiezoBatchData followed by int16_t values[]
PackPiezo(r) ==
    LE32(r.baseTimestamp) \o LE16(r.sampleIntervalMs)
      \o <<r.numSamples, r.numChannels>> \o PackValues(r.values)

\* struct TempHumData
PackTempHum(r) ==
    LE32(r.timestamp) \o LE16(ToU16(r.tempRaw)) \o LE16(r.humRaw)

RECURSIVE Btoa(_)
Btoa(bytes) ==
    IF Len(bytes) >= 3 THEN
        LET v == (bytes[1] * 256 + bytes[2]) * 256 + bytes[3]
        IN  <<v \div 262144, (v \div 4096) % 64, (v \div 64) % 64, v % 64>>
              \o Btoa(SubSeq(bytes, 4, Len(bytes)))
    ELSE IF Len(bytes) = 2 THEN
        LET v == (bytes[1] * 256 + bytes[2]) * 4
        IN  <<v \div 4096, (v \div 64) % 64, v % 64, PadChar>>
    ELSE IF Len(bytes) = 1 THEN
        LET v == bytes[1] * 16
        IN  <<v \div 64, v % 64, PadChar, PadChar>>
    ELSE <<>>

\* the first Len(bytes) - cut bytes: a record cut short in transit
Truncate(bytes, cut) == SubSeq(bytes, 1, Len(bytes) - Min(cut, Len(bytes)))

\* a base64 string damaged in transit: "none", a character replaced by one
\* outside the alphabet ("char"), or the last character lost ("drop")
Damage(s, how) ==
    IF how = "char" /\ Len(s) > 0 THEN [s EXCEPT ![1] = BadChar]
    ELSE IF how = "drop" /\ Len(s) > 0 THEN SubSeq(s, 1, Len(s) - 1)
    ELSE s

-----------------------------------------------------------------------------
(* Configuration of the effect (lines 197-207) and the component's state.   *)

WINDOW_MS == 20000

OFFSET_SAMPLE_SIZE == 20

SENSOR_KEYS == <<"A1", "B1", "C1", "A2", "B2", "C2", "D1", "E1",
                 "A3", "B3", "C3", "A4", "B4", "C4", "D2", "E2">>

KeySet == {SENSOR_KEYS[i] : i \in 1..Len(SENSOR_KEYS)}

makeEmptyState == [k \in KeySet |-> <<>>]

TOPIC_MAP == ("iot/piezo" :> <<"A1", "B1", "C1", "A2">>)

SensorName(i) == <<"Sensor1", "Sensor2", "Sensor3", "Sensor4">>[i]

-----------------------------------------------------------------------------
(* JSON values.  A payload is [json |-> FALSE] when JSON.parse throws on    *)
(* it, else [json |-> TRUE, data |-> v].  A value v is [t |-> "null"],       *)
(* [t |-> "num", n |-> integer], [t |-> "str", s |-> characters],           *)
(* [t |-> "bool", b |-> boolean], [t |-> "obj", f |-> fields] with fields a *)
(* function on the member names present, or [t |-> "arr", items |-> a       *)
(* sequence of values].  A character is its index in the base64 alphabet    *)
(* A-Z a-z 0-9 + /, so the digits '0'..'9' are 52..61.                      *)

JsonNull == [t |-> "null"]

Num(n) == [t |-> "num", n |-> n]

Str(s) == [t |-> "str", s |-> s]

Bool(b) == [t |-> "bool", b |-> b]

Obj(fields) == [t |-> "obj", f |-> fields]

Arr(items) == [t |-> "arr", items |-> items]

\* data[name] is present (not undefined)
Has(v, name) == v.t = "obj" /\ name \in DOMAIN v.f

\* typeof obj.ts === 'number'
HasNumber(v, name) == Has(v, name) /\ v.f[name].t = "num"

NaN == [nan |-> TRUE]

Digit0 == 52

RECURSIVE Decimal(_)
Decimal(s) ==
    IF s = <<>> THEN 0
    ELSE 10 * Decimal(SubSeq(s, 1, Len(s) - 1)) + (s[Len(s)] - Digit0)

\* the number a string converts to: 0 for the empty string, the decimal
\* value of a string of digits, NaN for any other string of the inputs
\* (signs, fractions, exponents, hex and "Infinity" are not among them)
StringToNumber(s) ==
    IF \A i \in 1..Len(s) : s[i] \in Digit0..(Digit0 + 9)
    THEN [nan |-> FALSE, n |-> Decimal(s)]
    ELSE NaN

\* Number(x) for x = obj[name], undefined when the member is missing
Number(v, name) ==
    IF ~Has(v, name) THEN NaN
    ELSE LET x == v.f[name]
         IN  IF x.t = "num" THEN [nan |-> FALSE, n |-> x.n]
             ELSE IF x.t = "str" THEN StringToNumber(x.s)
             ELSE IF x.t = "bool" THEN [nan |-> FALSE, n |-> IF x.b THEN 1 ELSE 0]
             ELSE IF x.t = "null" THEN [nan |-> FALSE, n |-> 0]
             ELSE IF x.t = "arr" /\ x.items = <<>> THEN [nan |-> FALSE, n |-> 0]
             ELSE NaN

\* Number(obj.v) || 1: the default is not zero
NumberOrOne(v, name) ==
    LET x == Number(v, name) IN IF x.nan THEN 1 ELSE x.n

\* Number(obj.v) || 0
NumberOrZero(v, name) ==
    LET x == Number(v, name) IN IF x.nan THEN 0 ELSE x.n

\* data.base64_sensordata is truthy
Truthy(x) ==
    IF x.t = "null" THEN FALSE
    ELSE IF x.t = "num" THEN x.n # 0
    ELSE IF x.t = "str" THEN x.s # <<>>
    ELSE IF x.t = "bool" THEN x.b
    ELSE TRUE

HasBase64(data) == Has(data, "base64_sensordata") /\ Truthy(data.f["base64_sensordata"])

\* the characters handed to atob
Base64Field(data) == data.f["base64_sensordata"].s

-----------------------------------------------------------------------------
(* The sliding window and the state updaters passed to setPiezo.            *)

\* now - d.time <= WINDOW_MS
InWindow(d, t) == RatLeq(RatSub(RatInt(t), d.time), RatInt(WINDOW_MS))

\* Combined with the comparison strict: a point exactly WINDOW_MS old is dropped
CombinedStrict(oldArr, newPoints, t) ==
    SelectSeq(oldArr \o newPoints,
              LAMBDA d : InWindow(d, t)
                         /\ RatSub(RatInt(t), d.time) # RatInt(WINDOW_MS))

\* Combined with only the new points filtered: old points are never evicted
CombinedNewOnly(oldArr, newPoints, t) ==
    oldArr \o SelectSeq(newPoints, LAMBDA d : InWindow(d, t))

\* Combined with the filter applied to the old points only
CombinedOldOnly(oldArr, newPoints, t) ==
    SelectSeq(oldArr, LAMBDA d : InWindow(d, t)) \o newPoints

\* [...oldArr, ...newPoints].filter(d => now - d.time <= WINDOW_MS)
Combined(oldArr, newPoints, t) ==
    SelectSeq(oldArr \o newPoints, LAMBDA d : InWindow(d, t))

\* decoded.channels[i].map(point => ({time: point.timestamp, value: point.value}))
BinaryPoints(channel) ==
    [j \in 1..Len(channel) |->
        [time |-> RatInt(channel[j].timestamp), value |-> channel[j].value]]

\* BinaryUpdater stamping the new points with the local time of the update
BinaryUpdaterStampNow(prev, channels, mapping, t) ==
    LET n == Min(Len(mapping), Len(channels))
    IN  [k \in KeySet |->
            IF \E i \in 1..n : mapping[i] = k
            THEN LET i == CHOOSE i \in 1..n : mapping[i] = k
                 IN  Combined(prev[k],
                              [j \in 1..Len(channels[i]) |->
                                  [time |-> RatInt(t), value |-> channels[i][j].value]], t)
            ELSE prev[k]]

\* BinaryUpdater filling the channel table from its end: channel i goes to
\* the i-th key from the last
BinaryUpdaterReversed(prev, channels, mapping, t) ==
    LET n == Min(Len(mapping), Len(channels))
    IN  [k \in KeySet |->
            IF \E i \in 1..n : mapping[Len(mapping) + 1 - i] = k
            THEN LET i == CHOOSE i \in 1..n : mapping[Len(mapping) + 1 - i] = k
                 IN  Combined(prev[k], BinaryPoints(channels[i]), t)
            ELSE prev[k]]

\* BinaryUpdater storing every decoded channel, channel i under the i-th
\* key of SENSOR_KEYS
BinaryUpdaterEveryChannel(prev, channels, mapping, t) ==
    LET n == Min(Len(SENSOR_KEYS), Len(channels))
    IN  [k \in KeySet |->
            IF \E i \in 1..n : SENSOR_KEYS[i] = k
            THEN LET i == CHOOSE i \in 1..n : SENSOR_KEYS[i] = k
                 IN  Combined(prev[k], BinaryPoints(channels[i]), t)
            ELSE prev[k]]

\* the updater of lines 283-302, run on state prev at local time t
BinaryUpdater(prev, channels, mapping, t) ==
    LET n == Min(Len(mapping), Len(channels))
    IN  [k \in KeySet |->
            IF \E i \in 1..n : mapping[i] = k
            THEN LET i == CHOOSE i \in 1..n : mapping[i] = k
                 IN  Combined(prev[k], BinaryPoints(channels[i]), t)
            ELSE prev[k]]

\* Array.isArray(raw) ? raw : (raw ? [raw] : [])
SlotArray(data, name) ==
    IF ~Has(data, name) THEN <<>>
    ELSE LET raw == data.f[name]
         IN  IF raw.t = "arr" THEN raw.items
             ELSE IF ~Truthy(raw) THEN <<>>
             ELSE <<raw>>

\* reading obj.ts throws a TypeError: obj is null
ReadingThrows(obj) == obj.t = "null"

\* the updater of lines 324-343 throws on this message's data
LegacyThrows(data, mapping) ==
    \E i \in 1..Len(mapping) :
        LET arr == SlotArray(data, SensorName(i))
        IN  \E j \in 1..Len(arr) : ReadingThrows(arr[j])

\* arr.map(obj => ({time: typeof obj.ts === 'number' ? (obj.ts - offset) : now,
\*                  value: Number(obj.v) || 0}))
LegacyPoints(arr, offset, t) ==
    [j \in 1..Len(arr) |->
        [time |-> IF HasNumber(arr[j], "ts")
                  THEN RatSub(RatInt(arr[j].f["ts"].n), offset)
                  ELSE RatInt(t),
         value |-> RatInt(NumberOrZero(arr[j], "v"))]]

\* the updater of lines 324-343, run on state prev with offsetRef.current = offset
LegacyUpdater(prev, data, mapping, offset, t) ==
    [k \in KeySet |->
        IF \E i \in 1..Len(mapping) : mapping[i] = k
        THEN LET i == CHOOSE i \in 1..Len(mapping) : mapping[i] = k
             IN  Combined(prev[k], LegacyPoints(SlotArray(data, SensorName(i)), offset, t), t)
        ELSE prev[k]]

-----------------------------------------------------------------------------
(* The clock-offset running average (lines 308-321).                        *)

\* the first i in 1..4 whose Sensor<i> sample carries a numeric ts; 0 if none
RECURSIVE FirstStamped(_, _)
FirstStamped(data, i) ==
    IF i > 4 THEN 0
    ELSE LET name == SensorName(i)
             d == IF Has(data, name) THEN data.f[name] ELSE JsonNull
             sample == IF d.t = "arr"
                       THEN (IF d.items = <<>> THEN JsonNull ELSE d.items[1])
                       ELSE d
         IN  IF HasNumber(sample, "ts") THEN i ELSE FirstStamped(data, i + 1)

\* sample.ts of that slot
StampOf(data, i) ==
    LET d == data.f[SensorName(i)]
    IN  IF d.t = "arr" THEN d.items[1].f["ts"].n ELSE d.f["ts"].n

\* PushSample evicting with pop() instead of shift(): the newest sample goes
PushSamplePop(samples, offsetSample) ==
    LET pushed == Append(samples, offsetSample)
    IN  IF Len(pushed) > OFFSET_SAMPLE_SIZE
        THEN SubSeq(pushed, 1, Len(pushed) - 1) ELSE pushed

\* push, then shift when longer than OFFSET_SAMPLE_SIZE
PushSample(samples, offsetSample) ==
    LET pushed == Append(samples, offsetSample)
    IN  IF Len(pushed) > OFFSET_SAMPLE_SIZE THEN Tail(pushed) ELSE pushed

\* Average dividing by the capacity instead of the current length
AverageOverCapacity(samples) == Rat(SeqSum(samples), OFFSET_SAMPLE_SIZE)

\* reduce((a, b) => a + b, 0) / length
Average(samples) == Rat(SeqSum(samples), Len(samples))

-----------------------------------------------------------------------------
(* handleMessage (lines 243-371).  The handler's effect on a message is     *)
(* the path it takes, the state updates it enqueues with setPiezo /         *)
(* setTemp1 / setHum1, and what it does to the offset refs.                 *)

\* every slot from i on whose first reading carries a numeric ts
RECURSIVE StampedSlots(_, _)
StampedSlots(data, i) ==
    LET k == FirstStamped(data, i)
    IN  IF k = 0 THEN <<>> ELSE <<k>> \o StampedSlots(data, k + 1)

RECURSIVE PushAll(_, _)
PushAll(samples, new) ==
    IF new = <<>> THEN samples ELSE PushAll(PushSample(samples, Head(new)), Tail(new))

\* LegacyPiezo without the break: every stamped slot is observed
LegacyPiezoNoBreak(data, browserNow, samples, ref) ==
    LET slots == StampedSlots(data, 1)
        obs == [j \in 1..Len(slots) |-> StampOf(data, slots[j]) - browserNow]
        pushed == PushAll(samples, obs)
    IN  [path |-> "legacy",
         enq |-> <<[kind |-> "legacy", data |-> data, browserNow |-> browserNow]>>,
         samples |-> pushed,
         ref |-> IF obs = <<>> THEN ref ELSE Average(pushed),
         obs |-> obs]

\* the legacy piezo branch (lines 305-343)
LegacyPiezo(data, browserNow, samples, ref) ==
    LET i == FirstStamped(data, 1)
        offsetSample == StampOf(data, i) - browserNow
        pushed == PushSample(samples, offsetSample)
    IN  [path |-> "legacy",
         enq |-> <<[kind |-> "legacy", data |-> data, browserNow |-> browserNow]>>,
         samples |-> IF i = 0 THEN samples ELSE pushed,
         ref |-> IF i = 0 THEN ref ELSE Average(pushed),
         obs |-> IF i = 0 THEN <<>> ELSE <<offsetSample>>]

\* the outcome of a handler that enqueues nothing and leaves the refs alone
NoEffect(path, samples, ref) ==
    [path |-> path, enq |-> <<>>, samples |-> samples, ref |-> ref, obs |-> <<>>]

\* the branch for topics in TOPIC_MAP (lines 267-347)
PiezoBranch(payload, mode, browserNow, samples, ref) ==
    IF ~payload.json THEN NoEffect("caught", samples, ref)
    ELSE IF payload.data.t = "null" THEN NoEffect("caught", samples, ref)
    ELSE IF mode = "base64" /\ HasBase64(payload.data) THEN
        LET dec == decodePiezoData(Base64Field(payload.data))
        IN  IF dec = Null THEN NoEffect("binaryNull", samples, ref)
            ELSE [path |-> "binary",
                  enq |-> <<[kind |-> "binary", channels |-> dec.channels,
                             browserNow |-> browserNow]>>,
                  samples |-> samples, ref |-> ref, obs |-> <<>>]
    ELSE LegacyPiezo(payload.data, browserNow, samples, ref)

\* TempBranch taking iot/temp for a topic of TOPIC_MAP
TempBranchAsPiezo(payload, mode, browserNow, samples, ref) ==
    PiezoBranch(payload, mode, browserNow, samples, ref)

\* the branch for iot/temp (lines 348-370)
TempBranch(payload, mode, browserNow, samples, ref) ==
    IF ~payload.json THEN NoEffect("caught", samples, ref)
    ELSE IF payload.data.t = "null" THEN NoEffect("caught", samples, ref)
    ELSE IF mode = "base64" /\ HasBase64(payload.data) THEN
        LET dec == decodeTempHumData(Base64Field(payload.data))
        IN  IF dec = Null THEN NoEffect("binaryNull", samples, ref)
            ELSE [path |-> "binary",
                  enq |-> <<[kind |-> "temp", temperature |-> dec.temperature,
                             humidity |-> dec.humidity]>>,
                  samples |-> samples, ref |-> ref, obs |-> <<>>]
    ELSE [path |-> "legacy",
          enq |-> <<[kind |-> "temp",
                     temperature |-> RatInt(NumberOrZero(payload.data, "Temperature")),
                     humidity |-> RatInt(NumberOrZero(payload.data, "Humidity"))]>>,
          samples |-> samples, ref |-> ref, obs |-> <<>>]

handleMessage(topic, payload, mode, browserNow, samples, ref) ==
    IF topic \in DOMAIN TOPIC_MAP
    THEN PiezoBranch(payload, mode, browserNow, samples, ref)
    ELSE IF topic = "iot/temp"
    THEN TempBranch(payload, mode, browserNow, samples, ref)
    ELSE NoEffect("ignored", samples, ref)

-----------------------------------------------------------------------------
(* A render of App: React runs the queued updates in order and commits.     *)

\* ApplyUpdate with a mode update that also resets the windows and the
\* temperature/humidity reading to their initial values
ApplyUpdateResetting(st, u, offset, t) ==
    IF u.kind = "binary"
    THEN [st EXCEPT !.piezo = BinaryUpdater(@, u.channels, TOPIC_MAP["iot/piezo"], t)]
    ELSE IF u.kind = "legacy"
    THEN [st EXCEPT !.piezo = LegacyUpdater(@, u.data, TOPIC_MAP["iot/piezo"], offset, t)]
    ELSE IF u.kind = "temp"
    THEN [st EXCEPT !.temp1 = u.temperature, !.hum1 = u.humidity]
    ELSE [st EXCEPT !.decoderMode = IF @ = "original" THEN "base64" ELSE "original",
                    !.piezo = makeEmptyState, !.temp1 = RatInt(0), !.hum1 = RatInt(0)]

\* one queued update applied to the component state st = [piezo, temp1, hum1,
\* decoderMode], with offsetRef.current = offset and Date.now() = t
ApplyUpdate(st, u, offset, t) ==
    IF u.kind = "binary"
    THEN [st EXCEPT !.piezo = BinaryUpdater(@, u.channels, TOPIC_MAP["iot/piezo"], t)]
    ELSE IF u.kind = "legacy"
    THEN [st EXCEPT !.piezo = LegacyUpdater(@, u.data, TOPIC_MAP["iot/piezo"], offset, t)]
    ELSE IF u.kind = "temp"
    THEN [st EXCEPT !.temp1 = u.temperature, !.hum1 = u.humidity]
    ELSE [st EXCEPT !.decoderMode = IF @ = "original" THEN "base64" ELSE "original"]

\* running the queued updates throws
QueueThrows(q) ==
    \E i \in 1..Len(q) :
        q[i].kind = "legacy" /\ LegacyThrows(q[i].data, TOPIC_MAP["iot/piezo"])

\* the channel keys the updater of a queued update assigns (lines 288-298, 329-339)
WrittenKeys(u) ==
    LET mapping == TOPIC_MAP["iot/piezo"]
    IN  IF u.kind = "binary"
        THEN {mapping[i] : i \in 1..Min(Len(mapping), Len(u.channels))}
        ELSE IF u.kind = "legacy"
        THEN {mapping[i] : i \in 1..Len(mapping)}
        ELSE {}

\* the updates a handler call enqueues, each with the message, the mode
\* its closure was created for and offsetRef.current as the handler left it
Tagged(enq, m, mode, ref) ==
    [i \in 1..Len(enq) |->
        enq[i] @@ [src |-> [topic |-> m.topic, payload |-> m.payload, mode |-> mode,
                            ref |-> ref]]]

RECURSIVE ApplyQueue(_, _, _, _)
ApplyQueue(st, q, offset, t) ==
    IF q = <<>> THEN st
    ELSE ApplyQueue(ApplyUpdate(st, Head(q), offset, t), Tail(q), offset, t)

-----------------------------------------------------------------------------
(* The window arrays as objects.  A JavaScript array has an identity: the   *)
(* state object's property refers to an array, and so does the data prop of *)
(* the SensorPlot it was rendered into.  h = [arrays, refs] holds every     *)
(* array created so far (arrays[id] is its contents) and, for each channel  *)
(* key, the id of the array the state object's property refers to.          *)

\* the channel keys an updater assigns, in the order of its loop
\* (lines 288-289, 329-330)
WrittenSeq(u) ==
    LET mapping == TOPIC_MAP["iot/piezo"]
    IN  IF u.kind = "binary"
        THEN SubSeq(mapping, 1, Min(Len(mapping), Len(u.channels)))
        ELSE IF u.kind = "legacy" THEN mapping
        ELSE <<>>

\* the position of key k in the sequence keys
PositionIn(keys, k) == CHOOSE i \in 1..Len(keys) : keys[i] = k

\* an updater that changed the arrays it found under keys until they held
\* the windows w[k], instead of building new ones
AssignInPlace(h, keys, w) ==
    [arrays |-> [id \in 1..Len(h.arrays) |->
                    IF \E i \in 1..Len(keys) : h.refs[keys[i]] = id
                    THEN w[CHOOSE k \in KeySet :
                               (\E i \in 1..Len(keys) : keys[i] = k) /\ h.refs[k] = id]
                    ELSE h.arrays[id]],
     refs |-> h.refs]

\* [...oldArr, ...newPoints].filter(...) is a new array, and
\* updated[mappedKey] = combined makes the copied state object refer to it
\* (lines 284, 296-298, 325, 338-339): w[k] is the window of key k
AssignCombined(h, keys, w) ==
    [arrays |-> h.arrays \o [i \in 1..Len(keys) |-> w[keys[i]]],
     refs |-> [k \in KeySet |->
                  IF \E i \in 1..Len(keys) : keys[i] = k
                  THEN Len(h.arrays) + PositionIn(keys, k)
                  ELSE h.refs[k]]]

\* the arrays after the queued updates have run in order
RECURSIVE StoreQueue(_, _, _, _, _)
StoreQueue(h, st, q, offset, t) ==
    IF q = <<>> THEN h
    ELSE LET after == ApplyUpdate(st, Head(q), offset, t)
         IN  StoreQueue(AssignCombined(h, WrittenSeq(Head(q)), after.piezo),
                        after, Tail(q), offset, t)

\* what App's render hands to the sixteen SensorPlots (lines 522-524)
Handed(h) == {[id |-> h.refs[k], data |-> h.arrays[h.refs[k]]] : k \in KeySet}

\* useState(makeEmptyState()) and the first render (lines 56, 59)
InitialHeap ==
    [arrays |-> [i \in 1..Len(SENSOR_KEYS) |-> <<>>],
     refs |-> [k \in KeySet |-> PositionIn(SENSOR_KEYS, k)]]

-----------------------------------------------------------------------------
(* Bounds and the inputs drawn from them.                                   *)

Now0 == 100000          \* the clock when the dashboard starts
MaxMessages == 2        \* messages received in a run
MaxQueue == 2           \* state updates waiting for a render
MaxValues == 4          \* num_samples * num_channels of a generated batch
MaxHandlers == 2        \* handlers App has registered for one event of the client

\* the clock advances in steps of TickStep and stops at MaxNow
TickStep == (WINDOW_MS * 5) \div 4

MaxNow == Now0 + TickStep

BatchA == [baseTimestamp |-> 105, sampleIntervalMs |-> 100, numSamples |-> 2,
           numChannels |-> 2, values |-> <<100, -32768, 250, -1>>]

BatchOld == [baseTimestamp |-> 75, sampleIntervalMs |-> 10000, numSamples |-> 2,
             numChannels |-> 5, values |-> <<5, 6, 7, 8, 9, 10, 11, 12, 13, 14>>]

PiezoBatches == {BatchA, BatchOld}

TempDoc == [timestamp |-> 1732012345, tempRaw |-> 2345, humRaw |-> 6789]

Envelope(b64) == Obj(("base64_sensordata" :> Str(b64)))

Reading(ts, v) == Obj(("ts" :> Num(ts)) @@ ("v" :> Num(v)))

Json(v) == [json |-> TRUE, data |-> v]

NotJson == [json |-> FALSE]

PiezoPayloads ==
    { Json(Envelope(Btoa(PackPiezo(b)))) : b \in PiezoBatches }
    \cup
    {
      Json(Envelope(Btoa(Truncate(PackPiezo(BatchA), 1)))),
      Json(Envelope(<<>>)),
      NotJson,
      Json(Obj(("Sensor1" :> Reading(100300, 7))
               @@ ("Sensor2" :> Arr(<<Reading(100300, 1), Obj(("v" :> Num(2)))>>)))),
      Json(Obj(("Sensor1" :> Obj(("v" :> Num(3))))
               @@ ("Sensor3" :> Obj(("ts" :> Num(90000)))))),
      Json(Obj(("Sensor1" :> Reading(100200, 4))
               @@ ("Sensor2" :> Arr(<<JsonNull>>)))),
      Json(Obj(("Sensor2" :> Arr(<<Obj(("v" :> Str(<<23>>))),
                                   Obj(("ts" :> Num(100300)) @@ ("v" :> Str(<<59>>)))>>)))) }

TempPayloads ==
    { Json(Envelope(Btoa(PackTempHum(TempDoc)))),
      Json(Envelope(Btoa(Truncate(PackTempHum(TempDoc), 1)))),
      Json(Envelope(<<>>)),
      NotJson,
      Json(Obj(("Temperature" :> Num(21)) @@ ("Humidity" :> Num(40)))) }

Messages ==
    {[topic |-> "iot/piezo", payload |-> p] : p \in PiezoPayloads}
      \cup {[topic |-> "iot/temp", payload |-> p] : p \in TempPayloads}
      \cup {[topic |-> "iot/status", payload |-> NotJson]}

\* the records the decoder harness packs: every header and value choice
\* within the bounds, whole or cut short, intact or damaged
RawValues == {-32768, -100, 250}

HarnessBatches ==
    UNION { UNION { { [baseTimestamp |-> h[1], sampleIntervalMs |-> h[2],
                       numSamples |-> ns, numChannels |-> nc, values |-> vs]
                      : vs \in [1..(ns * nc) -> RawValues] }
                    : h \in {<<100, 100>>, <<1732012, 250>>} }
            : <<ns, nc>> \in { s \in (0..MaxValues) \X (0..MaxValues)
                                : s[1] * s[2] <= MaxValues } }

HarnessTemps ==
    { [timestamp |-> ts, tempRaw |-> tr, humRaw |-> hr]
      : ts \in {1, 1732012345}, tr \in {2345, -500, -32768}, hr \in {0, 6789, 40000} }

HarnessInputs ==
    { [kind |-> "piezo", rec |-> r, cut |-> c, how |-> d,
       b64 |-> Damage(Btoa(Truncate(PackPiezo(r), c)), d)]
      : r \in HarnessBatches, c \in {0, 1, 8}, d \in {"none"} }
    \cup
    { [kind |-> "piezo", rec |-> r, cut |-> 0, how |-> d,
       b64 |-> Damage(Btoa(PackPiezo(r)), d)]
      : r \in {BatchA, BatchOld}, d \in {"char", "drop"} }
    \cup
    { [kind |-> "temp", rec |-> r, cut |-> c, how |-> d,
       b64 |-> Damage(Btoa(Truncate(PackTempHum(r), c)), d)]
      : r \in HarnessTemps, c \in {0, 1, 8}, d \in {"none", "char"} }

-----------------------------------------------------------------------------
(* The dashboard as a state machine.                                        *)

NoBuf == [kind |-> "none"]

\* the windows, the estimator and the temperature/humidity reading
Kept == [piezo |-> piezo, temp1 |-> temp1, hum1 |-> hum1,
         offsetSamples |-> offsetSamples, offsetRef |-> offsetRef]

\* the events of the transport client App registers handlers for
TransportEvents == {"connect", "disconnect", "reconnect", "offline", "message", "error"}

\* the events whose handler is a named function the cleanup can remove
NamedHandlers == {"connect", "disconnect", "reconnect", "offline", "message"}

\* the effect's body: one client.on for each event (lines 373-382)
Register(reg) == [e \in TransportEvents |-> reg[e] + 1]

\* the effect's cleanup: one client.removeListener for each named handler
\* (lines 387-393)
Cleanup(reg) ==
    [e \in TransportEvents |-> IF e \in NamedHandlers THEN reg[e] - 1 ELSE reg[e]]

\* the registry once App has mounted and its effect has run
MountedRegistry == Register([e \in TransportEvents |-> 0])

Init ==
    /\ now = Now0
    /\ decoderMode = "original"
    /\ listenerMode = "original"
    /\ effectPending = FALSE
    /\ mounted = TRUE
    /\ piezo = makeEmptyState
    /\ temp1 = RatInt(0)
    /\ hum1 = RatInt(0)
    /\ queue = <<>>
    /\ offsetRef = RatInt(0)
    /\ offsetSamples = <<>>
    /\ received = 0
    /\ writtenAt = [k \in KeySet |-> Now0]
    /\ observed = <<>>
    /\ last = [op |-> "init"]
    /\ heap = InitialHeap
    /\ shown = Handed(InitialHeap)
    /\ listeners = MountedRegistry
    /\ buf = NoBuf
    /\ decoded = Null
    /\ invalidLog = 0

\* the browser's clock advances
Tick ==
    /\ now + TickStep <= MaxNow
    /\ now' = now + TickStep
    /\ last' = [op |-> "tick"]
    /\ UNCHANGED <<decoderMode, listenerMode, effectPending, piezo, temp1, hum1, queue,
                   offsetRef, offsetSamples, received, observed, writtenAt, mounted,
                   heap, shown, listeners>>
    /\ UNCHANGED harnessVars

\* the transport client emits 'message' with one of the messages of set
\* sent: the registered handleMessage runs
MessageFrom(sent) ==
    /\ mounted
    /\ received < MaxMessages
    /\ \E m \in sent :
          LET r == handleMessage(m.topic, m.payload, listenerMode, now,
                                 offsetSamples, offsetRef)
          IN  /\ Len(queue) + Len(r.enq) <= MaxQueue
              /\ queue' = queue \o Tagged(r.enq, m, listenerMode, r.ref)
              /\ offsetSamples' = r.samples
              /\ offsetRef' = r.ref
              /\ observed' = observed \o r.obs
              /\ last' = [op |-> "message", topic |-> m.topic, payload |-> m.payload,
                          mode |-> listenerMode, browserNow |-> now, path |-> r.path,
                          pre |-> [queue |-> queue, offsetSamples |-> offsetSamples,
                                   offsetRef |-> offsetRef, observed |-> observed]]
    /\ received' = received + 1
    /\ UNCHANGED <<now, decoderMode, listenerMode, effectPending, piezo, temp1, hum1,
                   writtenAt, mounted, heap, shown, listeners>>
    /\ UNCHANGED harnessVars

Message == MessageFrom(Messages)

\* a click on the decoder button: toggleDecoderMode (lines 185-188)
\* (clicks stop once the effect has registered MaxHandlers error handlers)
Toggle ==
    /\ mounted
    /\ Len(queue) < MaxQueue
    /\ listeners["error"] + (IF effectPending THEN 1 ELSE 0) < MaxHandlers
    /\ queue' = Append(queue, [kind |-> "mode"])
    /\ last' = [op |-> "toggle", pre |-> Kept]
    /\ UNCHANGED <<now, decoderMode, listenerMode, effectPending, piezo, temp1, hum1,
                   offsetRef, offsetSamples, received, observed, writtenAt, mounted,
                   heap, shown, listeners>>
    /\ UNCHANGED harnessVars

\* React renders App: the queued updates run in order at the current time
Render ==
    /\ mounted
    /\ queue # <<>>
    /\ ~effectPending
    /\ ~QueueThrows(queue)
    /\ LET st == ApplyQueue([piezo |-> piezo, temp1 |-> temp1, hum1 |-> hum1,
                             decoderMode |-> decoderMode], queue, offsetRef, now)
       IN  /\ piezo' = st.piezo
           /\ temp1' = st.temp1
           /\ hum1' = st.hum1
           /\ decoderMode' = st.decoderMode
           /\ effectPending' = (st.decoderMode # decoderMode)
    /\ queue' = <<>>
    /\ last' = [op |-> "render", at |-> now, queue |-> queue, offset |-> offsetRef,
                pre |-> Kept @@ [refs |-> heap.refs]]
    /\ writtenAt' = [k \in KeySet |->
                        IF \E i \in 1..Len(queue) : k \in WrittenKeys(queue[i])
                        THEN now ELSE writtenAt[k]]
    /\ heap' = StoreQueue(heap, [piezo |-> piezo, temp1 |-> temp1, hum1 |-> hum1,
                                  decoderMode |-> decoderMode], queue, offsetRef, now)
    /\ shown' = shown \cup Handed(heap')
    /\ UNCHANGED <<now, listenerMode, offsetRef, offsetSamples, received, observed,
                   mounted, listeners>>
    /\ UNCHANGED harnessVars

\* a queued updater throws while React renders App: with no error boundary
\* above it the tree is unmounted, the effect's cleanup removes the message
\* listener and nothing is committed
RenderThrows ==
    /\ mounted
    /\ queue # <<>>
    /\ ~effectPending
    /\ QueueThrows(queue)
    /\ mounted' = FALSE
    /\ queue' = <<>>
    /\ listeners' = Cleanup(listeners)
    /\ last' = [op |-> "renderThrows", at |-> now, queue |-> queue, offset |-> offsetRef,
                pre |-> [piezo |-> piezo, temp1 |-> temp1, hum1 |-> hum1]]
    /\ UNCHANGED <<now, decoderMode, listenerMode, effectPending, piezo, temp1, hum1,
                   offsetRef, offsetSamples, received, observed, writtenAt, heap,
                   shown>>
    /\ UNCHANGED harnessVars

\* the effect's cleanup and re-run after decoderMode changed (lines 373-394)
RunEffect ==
    /\ effectPending
    /\ effectPending' = FALSE
    /\ listenerMode' = decoderMode
    /\ listeners' = Register(Cleanup(listeners))
    /\ last' = [op |-> "effect", pre |-> Kept]
    /\ UNCHANGED <<now, decoderMode, piezo, temp1, hum1, queue,
                   offsetRef, offsetSamples, received, observed, writtenAt, mounted,
                   heap, shown>>
    /\ UNCHANGED harnessVars

Next == Tick \/ Message \/ Toggle \/ Render \/ RenderThrows \/ RunEffect

Spec == Init /\ [][Next]_vars

-----------------------------------------------------------------------------
(* The dashboard after it has run for a while: the estimator already holds  *)
(* OFFSET_SAMPLE_SIZE - 1 samples, observed from earlier legacy messages    *)
(* whose points have since left the windows.  Only messages of the piezo    *)
(* topic reach the estimator, so these runs receive no others.              *)

Preload(n) == [i \in 1..n |-> 100 * i]

EstInit ==
    /\ now = Now0
    /\ decoderMode = "original"
    /\ listenerMode = "original"
    /\ effectPending = FALSE
    /\ mounted = TRUE
    /\ piezo = makeEmptyState
    /\ temp1 = RatInt(0)
    /\ hum1 = RatInt(0)
    /\ queue = <<>>
    /\ \E n \in {0, OFFSET_SAMPLE_SIZE - 1} :
          /\ offsetSamples = Preload(n)
          /\ offsetRef = IF n = 0 THEN RatInt(0) ELSE Rat(SeqSum(Preload(n)), n)
          /\ observed = Preload(n)
    /\ received = 0
    /\ writtenAt = [k \in KeySet |-> Now0]
    /\ last = [op |-> "init"]
    /\ heap = InitialHeap
    /\ shown = Handed(InitialHeap)
    /\ listeners = MountedRegistry
    /\ buf = NoBuf
    /\ decoded = Null
    /\ invalidLog = 0

PiezoMessages == {m \in Messages : m.topic \in DOMAIN TOPIC_MAP}

EstMessage == MessageFrom(PiezoMessages)

EstNext == Tick \/ EstMessage \/ Toggle \/ Render \/ RenderThrows \/ RunEffect

EstSpec == EstInit /\ [][EstNext]_vars

-----------------------------------------------------------------------------
(* The dashboard and the connection events of its transport client.  The    *)
(* handlers of these events write isConnected and connectionEvents only,    *)
(* which none of the variables above depends on; these runs follow them,    *)
(* with one message of each kind that stores something.                     *)

\* the client emits connect, disconnect, reconnect, offline or error: every
\* handler App has registered for the event runs, and each one calls
\* addConnectionEvent once (lines 209-241, 378-382)
Emit ==
    /\ \E e \in TransportEvents \ {"message"} :
          last' = [op |-> "emit", event |-> e, handlers |-> listeners[e],
                   connectionEvents |-> listeners[e]]
    /\ UNCHANGED <<now, decoderMode, listenerMode, effectPending, piezo, temp1, hum1,
                   queue, offsetRef, offsetSamples, received, observed, writtenAt,
                   mounted, heap, shown, listeners>>
    /\ UNCHANGED harnessVars

RegMessages ==
    {[topic |-> "iot/piezo", payload |-> Json(Envelope(Btoa(PackPiezo(BatchA))))],
     [topic |-> "iot/temp",
      payload |-> Json(Obj(("Temperature" :> Num(21)) @@ ("Humidity" :> Num(40))))]}

RegMessage == MessageFrom(RegMessages)

RegNext == Emit \/ RegMessage \/ Toggle \/ Render \/ RunEffect

RegSpec == Init /\ [][RegNext]_vars

-----------------------------------------------------------------------------
(* The decoders on their own: a record is packed, wrapped in base64,        *)
(* possibly cut short or damaged, and handed to one of the two decoders.    *)

DecInit ==
    /\ now = Now0
    /\ decoderMode = "original"
    /\ listenerMode = "original"
    /\ effectPending = FALSE
    /\ mounted = TRUE
    /\ piezo = makeEmptyState
    /\ temp1 = RatInt(0)
    /\ hum1 = RatInt(0)
    /\ queue = <<>>
    /\ offsetRef = RatInt(0)
    /\ offsetSamples = <<>>
    /\ received = 0
    /\ writtenAt = [k \in KeySet |-> Now0]
    /\ observed = <<>>
    /\ last = [op |-> "init"]
    /\ heap = InitialHeap
    /\ shown = Handed(InitialHeap)
    /\ listeners = MountedRegistry
    /\ buf \in HarnessInputs
    /\ decoded = Null
    /\ invalidLog = 0

DecodePiezo ==
    /\ last.op = "init"
    /\ decoded' = decodePiezoData(buf.b64)
    /\ invalidLog' = PiezoInvalidCount(buf.b64)
    /\ last' = [op |-> "decodePiezoData"]
    /\ UNCHANGED <<now, decoderMode, listenerMode, effectPending, piezo, temp1, hum1,
                   queue, offsetRef, offsetSamples, received, observed, writtenAt, mounted,
                   heap, shown, listeners, buf>>

DecodeTempHum ==
    /\ last.op = "init"
    /\ decoded' = decodeTempHumData(buf.b64)
    /\ last' = [op |-> "decodeTempHumData"]
    /\ UNCHANGED <<now, decoderMode, listenerMode, effectPending, piezo, temp1, hum1,
                   queue, offsetRef, offsetSamples, received, observed, writtenAt, mounted,
                   heap, shown, listeners, buf, invalidLog>>

DecNext == DecodePiezo \/ DecodeTempHum

DecSpec == DecInit /\ [][DecNext]_vars

-----------------------------------------------------------------------------
(* Properties.                                                              *)

\* t - d.time <= 20000, for a point d and a local time t
Fresh20(d, t) == (t - 20000) * d.time.d <= d.time.n

\* the position of channel key k in the piezo topic's channel table
SlotOf(k) == CHOOSE i \in 1..Len(TOPIC_MAP["iot/piezo"]) : TOPIC_MAP["iot/piezo"][i] = k

\* the points queued update u appends to channel k
PointsFor(k, u, offset, t) ==
    IF k \notin WrittenKeys(u) THEN <<>>
    ELSE IF u.kind = "binary" THEN BinaryPoints(u.channels[SlotOf(k)])
    ELSE LegacyPoints(SlotArray(u.data, SensorName(SlotOf(k))), offset, t)

\* the points the updates of queue q append to channel k, in order
RECURSIVE AppendedTo(_, _, _, _)
AppendedTo(k, q, offset, t) ==
    IF q = <<>> THEN <<>>
    ELSE PointsFor(k, Head(q), offset, t) \o AppendedTo(k, Tail(q), offset, t)

\* the channels written by the updates the latest render ran
RenderWrote(k) == \E i \in 1..Len(last.queue) : k \in WrittenKeys(last.queue[i])

\* C1: right after the updaters of piezo messages have run, every channel
\* they wrote holds no point older than 20000 ms at the local time of the
\* append, and holds every point, old or just appended, that is not older.
C1_WindowAfterAppend ==
    last.op = "render" =>
        \A k \in KeySet :
            RenderWrote(k) =>
                /\ \A j \in 1..Len(piezo[k]) : Fresh20(piezo[k][j], last.at)
                /\ piezo[k] =
                     SelectSeq(last.pre.piezo[k]
                                 \o AppendedTo(k, last.queue, last.offset, last.at),
                               LAMBDA d : Fresh20(d, last.at))

\* an append that evicted an old point and kept a new one
C1_Witness ==
    /\ last.op = "render"
    /\ \E k \in KeySet :
          /\ RenderWrote(k)
          /\ \E j \in 1..Len(last.pre.piezo[k]) : ~Fresh20(last.pre.piezo[k][j], last.at)
          /\ AppendedTo(k, last.queue, last.offset, last.at) # <<>>
          /\ piezo[k] # <<>>

\* C2 as stated: whenever the presentation reads the windows, every point
\* in them is within 20000 ms of the current local time.
C2_FreshAtRead ==
    \A k \in KeySet : \A j \in 1..Len(piezo[k]) : Fresh20(piezo[k][j], now)

\* C2 amended: every point in a window was within 20000 ms of the local
\* time of the latest append to that channel, whatever time has passed since.
C2_FreshAtLastAppend ==
    \A k \in KeySet : \A j \in 1..Len(piezo[k]) : Fresh20(piezo[k][j], writtenAt[k])

\* a committed state read after time has passed: a channel still holds a
\* point that is older than the window now
C2_Witness ==
    /\ queue = <<>>
    /\ \E k \in KeySet :
          /\ writtenAt[k] < now
          /\ \E j \in 1..Len(piezo[k]) : ~Fresh20(piezo[k][j], now)

\* C3: the estimator retains at most 20 offset samples, and they are the
\* most recently observed ones in arrival order.
C3_OffsetFifo ==
    /\ Len(offsetSamples) <= 20
    /\ offsetSamples =
         SubSeq(observed, Len(observed) - Min(20, Len(observed)) + 1, Len(observed))

\* a 21st sample has been observed and the oldest one evicted
C3_Witness ==
    /\ Len(observed) > 20
    /\ Len(offsetSamples) = 20
    /\ offsetSamples[1] # observed[1]

\* C4: the offset estimate times the number of retained samples is their
\* sum, and the estimate is 0 while nothing has been observed.
C4_OffsetIsMean ==
    IF observed = <<>>
    THEN offsetRef = RatInt(0)
    ELSE offsetRef.n * Len(offsetSamples) = SeqSum(offsetSamples) * offsetRef.d

\* after 21 observations the estimate is the mean of the last 20
C4_Witness ==
    /\ Len(observed) = 21
    /\ offsetRef.n * 20 = SeqSum(SubSeq(observed, 2, 21)) * offsetRef.d
    /\ offsetRef.n * 21 # SeqSum(observed) * offsetRef.d

-----------------------------------------------------------------------------
(* Properties of the decoders, on the records the harness packs.            *)

\* the piezo decoder has run on a packed piezo record
IsPiezoDecode == last.op = "decodePiezoData" /\ buf.kind = "piezo"

\* the temp/hum decoder has run on a whole, undamaged 8-byte record
IsTempDecode ==
    /\ last.op = "decodeTempHumData"
    /\ buf.kind = "temp" /\ buf.cut = 0 /\ buf.how = "none"

\* the value the decoder reads for channel ch at sample index s (from 0)
ReadFor(rec, ch, s) == rec.values[ch * rec.numSamples + s + 1]

\* the value the documented layout holds for channel ch at sample index s
DocumentedFor(rec, ch, s) == rec.values[s * rec.numChannels + ch + 1]

\* the sample indices 0..n-1, in order
Indices(n) == [i \in 1..n |-> i - 1]

RECURSIVE TotalLen(_)
TotalLen(seqs) == IF seqs = <<>> THEN 0 ELSE Len(Head(seqs)) + TotalLen(Tail(seqs))

\* point p is raw value raw at sample index s of record rec
IsSampleOf(p, rec, raw, s) ==
    /\ p.timestamp = rec.baseTimestamp * 1000 + s * rec.sampleIntervalMs
    /\ p.value.n * 100 = raw * p.value.d

\* C5: in a decoded batch no output sample is a raw -32768; the other raw
\* values read for a channel are that channel's output, in sample order,
\* as raw/100 at base_timestamp*1000 + s*sample_interval_ms; and emitted
\* plus discarded samples number num_samples*num_channels.
C5_DecodedSamples ==
    (IsPiezoDecode /\ decoded # Null) =>
        LET rec == buf.rec
        IN  /\ Len(decoded.channels) = rec.numChannels
            /\ \A ch \in 0..(rec.numChannels - 1) :
                  LET out == decoded.channels[ch + 1]
                      kept == SelectSeq(Indices(rec.numSamples),
                                        LAMBDA s : ReadFor(rec, ch, s) # -32768)
                  IN  /\ Len(out) = Len(kept)
                      /\ \A j \in 1..Len(out) :
                            /\ IsSampleOf(out[j], rec, ReadFor(rec, ch, kept[j]), kept[j])
                            /\ out[j].value.n * 100 # (-32768) * out[j].value.d
            /\ TotalLen(decoded.channels) + invalidLog
                 = rec.numSamples * rec.numChannels

\* a 2x2 batch decoded with a sentinel discarded and a negative value kept
C5_Witness ==
    /\ IsPiezoDecode /\ decoded # Null
    /\ buf.rec.numSamples = 2 /\ buf.rec.numChannels = 2
    /\ invalidLog = 1
    /\ \E ch \in 1..2 : \E j \in 1..Len(decoded.channels[ch]) :
          decoded.channels[ch][j].value.n < 0

\* the bytes of a base64 field are fewer than the record they start declares
ShortPiezo(bytes) ==
    \/ Len(bytes) < 8
    \/ Len(bytes) < 8 + 2 * getUint8(bytes, 6) * getUint8(bytes, 7)

\* the message a queued update came from carried, in base64 mode, a record
\* shorter than its declared length
FromShortRecord(u) ==
    /\ u.kind # "mode"
    /\ u.src.mode = "base64"
    /\ u.src.payload.json
    /\ Has(u.src.payload.data, "base64_sensordata")
    /\ LET a == Atob(Base64Field(u.src.payload.data))
       IN  /\ a.ok
           /\ IF u.src.topic = "iot/temp" THEN Len(a.bytes) < 8 ELSE ShortPiezo(a.bytes)

\* C6 as stated: a binary record shorter than its declared length fails
\* decoding, and the message carrying it changes no channel window and no
\* temperature/humidity reading.
C6_ShortRecordChangesNothing ==
    /\ (IsPiezoDecode /\ buf.how = "none" /\ buf.cut > 0) => decoded = Null
    /\ (/\ last.op = "decodeTempHumData"
        /\ buf.kind = "temp" /\ buf.how = "none" /\ buf.cut > 0) => decoded = Null
    /\ (/\ last.op = "render"
        /\ \A i \in 1..Len(last.queue) : FromShortRecord(last.queue[i]))
         => /\ piezo = last.pre.piezo
            /\ temp1 = last.pre.temp1
            /\ hum1 = last.pre.hum1

\* C7 as stated: the decoder's result carries the invalid-sample count.
C7_ResultCarriesInvalidCount ==
    (IsPiezoDecode /\ decoded # Null) => "invalidCount" \in DOMAIN decoded

\* C7 amended: the result carries the channel sequences, base_timestamp
\* and sample_interval_ms and nothing else; the number of sentinel samples
\* discarded is counted and logged, not returned.
C7_ResultFields ==
    (IsPiezoDecode /\ decoded # Null) =>
        /\ DOMAIN decoded = {"channels", "baseTimestamp", "sampleIntervalMs"}
        /\ decoded.baseTimestamp = buf.rec.baseTimestamp
        /\ decoded.sampleIntervalMs = buf.rec.sampleIntervalMs
        /\ invalidLog = Cardinality({i \in 1..Len(buf.rec.values) :
                                        buf.rec.values[i] = -32768})

\* a batch decoded after two sentinel samples were discarded
C7_Witness ==
    /\ IsPiezoDecode /\ decoded # Null
    /\ invalidLog = 2
    /\ TotalLen(decoded.channels) > 0

\* C8 as stated: values are interleaved by sample, so the int16 at data
\* index s*num_channels + c is decoded as sample s of channel c.
C8_SampleInterleaved ==
    (IsPiezoDecode /\ decoded # Null) =>
        LET rec == buf.rec
        IN  \A c \in 0..(rec.numChannels - 1) :
                LET out == decoded.channels[c + 1]
                    kept == SelectSeq(Indices(rec.numSamples),
                                      LAMBDA s : DocumentedFor(rec, c, s) # -32768)
                IN  /\ Len(out) = Len(kept)
                    /\ \A j \in 1..Len(out) :
                          IsSampleOf(out[j], rec, DocumentedFor(rec, c, kept[j]), kept[j])

-----------------------------------------------------------------------------
(* Properties of the dispatcher's error handling.                           *)

\* handled in mode `mode`, the message is not valid JSON or carries a
\* base64 record its topic's decoder cannot decode
BadMessage(topic, payload, mode) ==
    \/ ~payload.json
    \/ /\ mode = "base64"
       /\ Has(payload.data, "base64_sensordata")
       /\ \/ /\ topic = "iot/piezo"
             /\ decodePiezoData(Base64Field(payload.data)) = Null
          \/ /\ topic = "iot/temp"
             /\ decodeTempHumData(Base64Field(payload.data)) = Null

\* C10 as stated: a message that is not valid JSON or whose record cannot
\* be decoded leaves the offset estimator as it was when it is handled, and
\* leaves every channel window and the temperature/humidity reading as they
\* were when the updates it caused, if any, have run.
C10_BadMessageSwallowed ==
    /\ (last.op = "message" /\ BadMessage(last.topic, last.payload, last.mode))
         => /\ offsetSamples = last.pre.offsetSamples
            /\ offsetRef = last.pre.offsetRef
    /\ (/\ last.op = "render"
        /\ \A i \in 1..Len(last.queue) :
              /\ last.queue[i].kind # "mode"
              /\ BadMessage(last.queue[i].src.topic, last.queue[i].src.payload,
                            last.queue[i].src.mode))
         => /\ piezo = last.pre.piezo
            /\ temp1 = last.pre.temp1
            /\ hum1 = last.pre.hum1

-----------------------------------------------------------------------------
(* Properties of the legacy path and of the dispatch.                       *)

\* the latest step handled a message on the piezo topic
IsPiezoMessage == last.op = "message" /\ last.topic \in DOMAIN TOPIC_MAP

\* processing of the legacy piezo message just handled fails: in the
\* handler's try block, or later in the updater it enqueued
LegacyFails ==
    /\ IsPiezoMessage
    /\ \/ last.path = "caught"
       \/ /\ last.path = "legacy"
          /\ LegacyThrows(last.payload.data, TOPIC_MAP[last.topic])

\* C11 as stated: when processing of a legacy piezo message fails, the
\* estimator's samples and estimate are what they were before the message,
\* and when its update fails the windows are unchanged and the dashboard
\* goes on.
C11_FailedMessageCorruptsNothing ==
    /\ LegacyFails => /\ offsetSamples = last.pre.offsetSamples
                      /\ offsetRef = last.pre.offsetRef
    /\ last.op = "renderThrows" => piezo = last.pre.piezo /\ mounted

\* the latest step handled a message on the piezo or the temp topic whose
\* payload parsed to a JSON object
IsObjectMessage ==
    /\ last.op = "message"
    /\ last.topic \in DOMAIN TOPIC_MAP \cup {"iot/temp"}
    /\ last.payload.json
    /\ last.payload.data.t = "obj"

\* C12 as stated: the legacy path is taken exactly when the handler's mode
\* is legacy or the object has no base64_sensordata field; with the mode
\* binary and the field present, whatever its value, the message goes to
\* the topic's binary decoder.
C12_FieldPresenceDispatch ==
    IsObjectMessage =>
        /\ last.path = "legacy"
             <=> (last.mode = "original" \/ ~Has(last.payload.data, "base64_sensordata"))
        /\ last.path \in {"binary", "binaryNull"}
             <=> (last.mode = "base64" /\ Has(last.payload.data, "base64_sensordata"))

BatchOf(u) ==
    CHOOSE b \in PiezoBatches : u.src.payload = Json(Envelope(Btoa(PackPiezo(b))))

\* point d of a window is sample s of channel c (from 0) of batch b, with
\* the time embedded in the batch
IsEmbedded(d, b, c, s) ==
    /\ d.time = [n |-> b.baseTimestamp * 1000 + s * b.sampleIntervalMs, d |-> 1]
    /\ d.value.n * 100 = ReadFor(b, c, s) * d.value.d

\* window point d of channel key k comes from a binary update of queue q
FromBinary(d, k, q) ==
    \E i \in 1..Len(q) :
        /\ q[i].kind = "binary"
        /\ LET b == BatchOf(q[i])
           IN  \E c \in 0..(b.numChannels - 1) :
                  /\ c < Len(TOPIC_MAP["iot/piezo"])
                  /\ TOPIC_MAP["iot/piezo"][c + 1] = k
                  /\ \E s \in 0..(b.numSamples - 1) : IsEmbedded(d, b, c, s)

\* C14: a message on the binary path leaves the estimator's samples and
\* estimate as they were, and every point its update adds to a window has
\* the time embedded in the batch, base_timestamp*1000 + s*sample_interval_ms,
\* whatever the offset estimate is.
C14_BinaryUsesEmbeddedTime ==
    /\ (last.op = "message" /\ last.path \in {"binary", "binaryNull"})
         => /\ offsetSamples = last.pre.offsetSamples
            /\ offsetRef = last.pre.offsetRef
    /\ (last.op = "render" /\ \A i \in 1..Len(last.queue) : last.queue[i].kind # "legacy")
         => \A k \in KeySet : \A j \in 1..Len(piezo[k]) :
               \/ \E h \in 1..Len(last.pre.piezo[k]) : piezo[k][j] = last.pre.piezo[k][h]
               \/ FromBinary(piezo[k][j], k, last.queue)

\* a binary batch stored while the offset estimate is not zero
C14_Witness ==
    /\ last.op = "render"
    /\ last.offset # RatInt(0)
    /\ \A i \in 1..Len(last.queue) : last.queue[i].kind = "binary"
    /\ \E k \in KeySet : \E j \in 1..Len(piezo[k]) :
          /\ FromBinary(piezo[k][j], k, last.queue)
          /\ \A h \in 1..Len(last.pre.piezo[k]) : piezo[k][j] # last.pre.piezo[k][h]

\* the latest step handled a piezo message on the legacy path
IsLegacyPiezo == IsPiezoMessage /\ last.path = "legacy"

\* reading x carries a numeric ts
Stamped(x) == x.t = "obj" /\ "ts" \in DOMAIN x.f /\ x.f["ts"].t = "num"

\* the readings of slot Sensor<i> of a message, in order
ReadingsOf(data, i) ==
    IF data.t # "obj" \/ SensorName(i) \notin DOMAIN data.f THEN <<>>
    ELSE LET raw == data.f[SensorName(i)]
         IN  IF raw.t = "arr" THEN raw.items
             ELSE IF raw.t = "obj" THEN <<raw>>
             ELSE <<>>

\* the readings of all four slots, in the order they are encountered
AllReadings(data) ==
    ReadingsOf(data, 1) \o ReadingsOf(data, 2) \o ReadingsOf(data, 3) \o ReadingsOf(data, 4)

\* the first readings of the four slots, in slot order
HeadReadings(data) ==
    LET heads(i) == IF ReadingsOf(data, i) = <<>> THEN <<>> ELSE <<ReadingsOf(data, i)[1]>>
    IN  heads(1) \o heads(2) \o heads(3) \o heads(4)

\* what the estimator has observed since the message arrived, given the
\* readings that count: one sample from the first stamped one, or nothing
ObservedFirstOf(readings) ==
    LET stamped == SelectSeq(readings, Stamped)
    IN  IF stamped = <<>> THEN observed = last.pre.observed
        ELSE observed = Append(last.pre.observed, stamped[1].f["ts"].n - last.browserNow)

\* C15 as stated: a legacy piezo message in which any reading carries a
\* numeric ts makes the estimator observe exactly one sample, the ts of the
\* first such reading minus the local receive time; with no such reading
\* nothing is observed.
C15_OneOffsetFromAnyReading ==
    IsLegacyPiezo => ObservedFirstOf(AllReadings(last.payload.data))

\* C15 amended: only the first reading of each slot counts; the estimator
\* observes exactly one sample, from the first slot whose first reading
\* carries a numeric ts, and nothing when no slot has one, even if a later
\* reading of a slot array carries a numeric ts.  Never more than one.
C15_OneOffsetFromSlotHeads ==
    IsLegacyPiezo =>
        /\ ObservedFirstOf(HeadReadings(last.payload.data))
        /\ Len(observed) <= Len(last.pre.observed) + 1

\* a message with two stamped slots from which one sample was observed
C15_Witness ==
    /\ IsLegacyPiezo
    /\ Len(SelectSeq(HeadReadings(last.payload.data), Stamped)) >= 2
    /\ Len(observed) = Len(last.pre.observed) + 1

\* the latest step is a render that ran one update, a binary one
IsBinaryRender ==
    /\ last.op = "render"
    /\ Len(last.queue) = 1
    /\ last.queue[1].kind = "binary"

\* the points batch b holds for channel c (from 0): the samples read for it
\* that are not the sentinel, in order, at their embedded times
EmbeddedPoints(b, c) ==
    LET kept == SelectSeq(Indices(b.numSamples), LAMBDA s : ReadFor(b, c, s) # -32768)
    IN  [j \in 1..Len(kept) |->
            [time |-> [n |-> b.baseTimestamp * 1000 + kept[j] * b.sampleIntervalMs, d |-> 1],
             value |-> Rat(ReadFor(b, c, kept[j]), 100)]]

\* C16: a binary batch of n channels writes the first min(4, n) keys of
\* the piezo channel table, channel i to entry i: each of them is the old
\* window plus that channel's points, filtered; every other key, in the
\* table or not, keeps its window as it was, and the render does not throw.
C16_ChannelRouting ==
    /\ IsBinaryRender =>
          LET b == BatchOf(last.queue[1])
              table == TOPIC_MAP["iot/piezo"]
              n == IF b.numChannels < 4 THEN b.numChannels ELSE 4
          IN  /\ \A i \in 1..n :
                    piezo[table[i]] =
                        SelectSeq(last.pre.piezo[table[i]] \o EmbeddedPoints(b, i - 1),
                                  LAMBDA d : Fresh20(d, last.at))
              /\ \A k \in KeySet :
                    (\A i \in 1..n : table[i] # k) => piezo[k] = last.pre.piezo[k]
    /\ last.op = "renderThrows" => \E i \in 1..Len(last.queue) : last.queue[i].kind # "binary"

\* a batch of five channels stored: the fourth key holds its fourth
\* channel and no key outside the table holds anything
C16_Witness ==
    /\ IsBinaryRender
    /\ BatchOf(last.queue[1]).numChannels = 5
    /\ piezo["A2"] # last.pre.piezo["A2"]
    /\ \A i \in 5..Len(SENSOR_KEYS) : piezo[SENSOR_KEYS[i]] = <<>>

\* the latest step is a render that ran one update, a legacy one
IsLegacyRender ==
    /\ last.op = "render"
    /\ Len(last.queue) = 1
    /\ last.queue[1].kind = "legacy"

\* reading x has no v, or a v that is not a number and does not convert to one
NoNumericV(x) ==
    \/ x.t # "obj"
    \/ "v" \notin DOMAIN x.f
    \/ x.f["v"].t \in {"null", "obj"}
    \/ x.f["v"].t = "str" /\ \E i \in 1..Len(x.f["v"].s) : x.f["v"].s[i] \notin 52..61

\* the value reading x is stored with
StoredValue(x) ==
    IF NoNumericV(x) THEN 0
    ELSE IF x.f["v"].t = "num" THEN x.f["v"].n
    ELSE NumberOrZero(x, "v")

\* the time reading x is stored with by an updater that runs at time t with
\* the offset estimate at offset
StoredTime(x, offset, t) ==
    IF Stamped(x)
    THEN [n |-> x.f["ts"].n * offset.d - offset.n, d |-> offset.d]
    ELSE [n |-> t, d |-> 1]

\* d is the point stored for reading x
IsPointOf(d, x, offset, t) ==
    /\ d.time.n * StoredTime(x, offset, t).d = StoredTime(x, offset, t).n * d.time.d
    /\ d.value.n = StoredValue(x) * d.value.d

\* window w is window pre with the points of readings xs appended and the
\* points older than 20000 ms at t removed
IsAppended(w, pre, xs, offset, t) ==
    LET isFresh(x) == (t - 20000) * StoredTime(x, offset, t).d <= StoredTime(x, offset, t).n
        old == SelectSeq(pre, LAMBDA d : Fresh20(d, t))
        new == SelectSeq(xs, isFresh)
    IN  /\ Len(w) = Len(old) + Len(new)
        /\ \A j \in 1..Len(old) : w[j] = old[j]
        /\ \A j \in 1..Len(new) : IsPointOf(w[Len(old) + j], new[j], offset, t)

\* C17: a legacy reading whose v is missing or does not convert to a number
\* is stored with value 0, and every other reading of the message, in
\* the same slot and in the other slots, is stored with its own value.
C17_MissingValueIsZero ==
    IsLegacyRender =>
        \A i \in 1..Len(TOPIC_MAP["iot/piezo"]) :
            IsAppended(piezo[TOPIC_MAP["iot/piezo"][i]],
                       last.pre.piezo[TOPIC_MAP["iot/piezo"][i]],
                       SlotArray(last.queue[1].data, SensorName(i)),
                       last.offset, last.at)

\* one slot stored a reading with a non-numeric v as 0 next to a reading
\* with a value of its own
C17_Witness ==
    /\ IsLegacyRender
    /\ \E i \in 1..Len(TOPIC_MAP["iot/piezo"]) :
          LET xs == SlotArray(last.queue[1].data, SensorName(i))
              w == piezo[TOPIC_MAP["iot/piezo"][i]]
          IN  /\ \E j \in 1..Len(xs) : xs[j].t = "obj" /\ "v" \in DOMAIN xs[j].f /\ NoNumericV(xs[j])
              /\ \E j \in 1..Len(w) : w[j].value = RatInt(0)
              /\ \E j \in 1..Len(w) : w[j].value # RatInt(0)

\* the windows after the legacy updates of queue q have each run to
\* completion when their message arrived: with the offset estimate their
\* own handler left and at their own receive time
RECURSIVE RunAtArrival(_, _)
RunAtArrival(w, q) ==
    IF q = <<>> THEN w
    ELSE RunAtArrival(LegacyUpdater(w, Head(q).data, TOPIC_MAP["iot/piezo"],
                                    Head(q).src.ref, Head(q).browserNow),
                      Tail(q))

\* C18 as stated: each legacy message's readings are stored with the offset
\* estimate as it stood right after that message's own observation and
\* evicted at that message's time, even when another message arrives
\* before its window update has been applied.
C18_RunToCompletion ==
    (/\ last.op = "render"
     /\ \A i \in 1..Len(last.queue) : last.queue[i].kind = "legacy")
        => piezo = RunAtArrival(last.pre.piezo, last.queue)

C20_UnstampedAtReceiveTime ==
    IsLegacyRender =>
        \A i \in 1..Len(TOPIC_MAP["iot/piezo"]) :
            LET xs == SlotArray(last.queue[1].data, SensorName(i))
                w == piezo[TOPIC_MAP["iot/piezo"][i]]
            IN  \A j \in 1..Len(xs) :
                    ~Stamped(xs[j]) =>
                        \E h \in 1..Len(w) :
                            /\ w[h].time = [n |-> last.queue[1].browserNow, d |-> 1]
                            /\ w[h].value.n = StoredValue(xs[j]) * w[h].value.d

-----------------------------------------------------------------------------
\* C21: a window array that a render has handed to a SensorPlot is never
\* modified afterwards: whatever appends and evictions follow, the array
\* still holds exactly the contents it had when it was handed over.
C21_SnapshotsNeverModified ==
    \A s \in shown : heap.arrays[s.id] = s.data

\* a render has replaced a non-empty window that an earlier render handed
\* over, by appending to it or evicting from it
C21_Witness ==
    /\ last.op = "render"
    /\ \E k \in KeySet :
          /\ RenderWrote(k)
          /\ last.pre.piezo[k] # <<>>
          /\ piezo[k] # last.pre.piezo[k]
          /\ [id |-> last.pre.refs[k], data |-> last.pre.piezo[k]] \in shown
          /\ heap.arrays[heap.refs[k]] = piezo[k]

-----------------------------------------------------------------------------
\* C22: while App is mounted, and after any number of mode toggles, it has
\* exactly one handler registered on the client for each of connect,
\* disconnect, reconnect, offline, message and error, so an emitted event
\* runs one handler and adds one connection event.
C22_OneHandlerPerEvent ==
    mounted =>
        /\ \A e \in TransportEvents : listeners[e] = 1
        /\ last.op = "emit" => last.handlers = 1 /\ last.connectionEvents = 1

-----------------------------------------------------------------------------
\* the channel keys that are not in the piezo topic's channel table
TwelveKeys == {"B2", "C2", "D1", "E1", "A3", "B3", "C3", "A4", "B4", "C4", "D2", "E2"}

\* C23: in every reachable state the windows of the twelve channel keys
\* outside the piezo topic's channel table are empty, whatever messages
\* arrived, on whatever topic and in whichever mode.
C23_UnmappedWindowsEmpty ==
    \A k \in TwelveKeys : piezo[k] = <<>>

\* a batch of five channels has been stored: each key of the channel table
\* holds samples and the twelve other keys hold none
C23_Witness ==
    /\ IsBinaryRender
    /\ Len(last.queue[1].channels) = 5
    /\ \A k \in KeySet \ TwelveKeys : piezo[k] # <<>>
    /\ \A k \in TwelveKeys : piezo[k] = <<>>

-----------------------------------------------------------------------------
\* the updates of queue q that messages of the given topic enqueued
FromTopic(q, topic) ==
    SelectSeq(q, LAMBDA u : u.kind # "mode" /\ u.src.topic = topic)

\* the updates the latest message's handler enqueued
Enqueued == SubSeq(queue, Len(last.pre.queue) + 1, Len(queue))

\* the offset estimator is as it was before the latest message
EstimatorKept ==
    /\ offsetSamples = last.pre.offsetSamples
    /\ offsetRef = last.pre.offsetRef
    /\ observed = last.pre.observed

\* C24: a message changes only the state of its own topic.  A message on
\* iot/temp leaves the estimator alone and enqueues nothing but an update of
\* the temperature/humidity reading; a message on iot/piezo enqueues nothing
\* but an update of the windows; a message on another topic leaves the
\* estimator alone and enqueues nothing.  When the updates run, the windows
\* are what the updates of piezo messages alone make of them and the
\* temperature/humidity reading what the updates of temp messages alone
\* make of it.
C24_TopicsAreIsolated ==
    /\ last.op = "message" /\ last.topic = "iot/temp" =>
          /\ EstimatorKept
          /\ \A i \in 1..Len(Enqueued) : Enqueued[i].kind = "temp"
    /\ last.op = "message" /\ last.topic = "iot/piezo" =>
          \A i \in 1..Len(Enqueued) : Enqueued[i].kind \in {"binary", "legacy"}
    /\ last.op = "message" /\ last.topic \notin {"iot/piezo", "iot/temp"} =>
          EstimatorKept /\ Enqueued = <<>>
    /\ last.op = "render" =>
          LET ofPiezo == ApplyQueue(last.pre, FromTopic(last.queue, "iot/piezo"),
                                    last.offset, last.at)
              ofTemp == ApplyQueue(last.pre, FromTopic(last.queue, "iot/temp"),
                                   last.offset, last.at)
          IN  /\ piezo = ofPiezo.piezo
              /\ ofPiezo.temp1 = last.pre.temp1 /\ ofPiezo.hum1 = last.pre.hum1
              /\ temp1 = ofTemp.temp1 /\ hum1 = ofTemp.hum1
              /\ ofTemp.piezo = last.pre.piezo

\* one render has run the update of a piezo message and the update of a
\* temp message: a window and the temperature reading have both changed
C24_Witness ==
    /\ last.op = "render"
    /\ FromTopic(last.queue, "iot/piezo") # <<>>
    /\ FromTopic(last.queue, "iot/temp") # <<>>
    /\ piezo # last.pre.piezo
    /\ temp1 # last.pre.temp1

-----------------------------------------------------------------------------
\* the updates of queue q that are not mode toggles
NotMode(q) == SelectSeq(q, LAMBDA u : u.kind # "mode")

\* C25: toggling the decoder mode changes only the mode.  The click, the
\* mode update when the render runs it and the listener re-registration
\* that follows each leave every window, the estimator's samples and
\* estimate and the temperature/humidity reading as they were: after a
\* render they are what the other updates of the queue alone produce.
C25_ToggleChangesOnlyMode ==
    /\ last.op \in {"toggle", "effect"} => Kept = last.pre
    /\ last.op = "render" =>
          LET others == ApplyQueue(last.pre, NotMode(last.queue), last.offset, last.at)
          IN  /\ piezo = others.piezo
              /\ temp1 = others.temp1
              /\ hum1 = others.hum1
              /\ offsetSamples = last.pre.offsetSamples
              /\ offsetRef = last.pre.offsetRef

\* the listener has been re-registered for base64 mode while a window, the
\* estimator and the temperature reading all hold something
C25_Witness ==
    /\ last.op = "effect"
    /\ listenerMode = "base64"
    /\ \E k \in KeySet : piezo[k] # <<>>
    /\ offsetSamples # <<>>
    /\ temp1 # RatInt(0)

-----------------------------------------------------------------------------
\* point d is in window w
Stored(d, w) == \E i \in 1..Len(w) : w[i] = d

\* every point of the sequence is more than 20000 ms behind local time t
AllStale(points, t) == \A j \in 1..Len(points) : ~Fresh20(points[j], t)

\* C26: a sample whose time is more than 20000 ms behind the local time of
\* its own append is not in its window right after the append.  When every
\* sample appended to a channel is that old the window gains nothing: it is
\* the earlier window less its own old points.  A binary batch whose
\* samples were all that old when its message arrived adds nothing either.
C26_StaleNeverStored ==
    last.op = "render" =>
        \A k \in KeySet :
            RenderWrote(k) =>
                LET new == AppendedTo(k, last.queue, last.offset, last.at)
                IN  /\ \A j \in 1..Len(new) :
                          ~Fresh20(new[j], last.at) => ~Stored(new[j], piezo[k])
                    /\ AllStale(new, last.at) =>
                          piezo[k] = SelectSeq(last.pre.piezo[k],
                                               LAMBDA d : Fresh20(d, last.at))
                    /\ \A i \in 1..Len(last.queue) :
                          LET u == last.queue[i]
                              sent == PointsFor(k, u, last.offset, last.at)
                          IN  u.kind = "binary" /\ AllStale(sent, u.browserNow) =>
                                  \A j \in 1..Len(sent) : ~Stored(sent[j], piezo[k])

\* a batch whose samples are all too old has been appended to a window that
\* held fresh points: the window is as it was
C26_Witness ==
    /\ IsBinaryRender
    /\ \E k \in KeySet :
          /\ RenderWrote(k)
          /\ AppendedTo(k, last.queue, last.offset, last.at) # <<>>
          /\ AllStale(AppendedTo(k, last.queue, last.offset, last.at), last.at)
          /\ last.pre.piezo[k] # <<>>
          /\ piezo[k] = last.pre.piezo[k]

=============================================================================
